---- MODULE Spec2Model ----
(***************************************************************************)
(* Model of example.go: the orchestration of remote management calls made  *)
(* by main, createNeededResources, createVM, vmOperations and deleteVM,    *)
(* the sync.WaitGroup fan-outs of main, and the failure path onErrorFail.  *)
(*                                                                         *)
(* Every remote call is two steps: the request is issued (RemoteCall) and  *)
(* the response arrives (RemoteReturn), without error or with one.  The    *)
(* main goroutine and the goroutines started by the go statements          *)
(* interleave at these steps.  onErrorFail is two steps as well            *)
(* (fmt.Printf, then os.Exit), so other goroutines run between the         *)
(* arrival of an error and the end of the process.                         *)
(***************************************************************************)
EXTENDS Integers, Sequences, FiniteSets, TLC

\* ---- bounds of the model ------------------------------------------------

\* largest OS disk size (GB) the service reports in the response of vmClient.Get
MaxDiskSizeGB == 2

\* ---- names set by the program --------------------------------------------

linuxVMname == "linuxVM"
windowsVMname == "windowsVM"
groupName == "sample-group1"
accountName == "golangrocksonazurese"
vNetName == "vNet"
subnetName == "subnet"

VMs == {linuxVMname, windowsVMname}

\* fmt.Sprintf("pip-%s", machine)
IPname(machine) == "pip-" \o machine

\* fmt.Sprintf("nic-%s", machine)
nicName_fixed(machine) == "nic-" \o linuxVMname

nicName(machine) == "nic-" \o machine

\* ---- statements ----------------------------------------------------------
\* A function body is the sequence of its statements that act on the remote
\* service or on the goroutines; a callee's body is spliced in at its call.

Stmt(kind, fn, op, name, n) ==
    [kind |-> kind, fn |-> fn, op |-> op, name |-> name, n |-> n]

\* a client call whose error is handed to onErrorFail
Call(fn, op, name) == Stmt("call", fn, op, name, 0)

createNeededResources_swapped ==
    << Call("createNeededResources", "groupClient.CreateOrUpdate", groupName),
       Call("createNeededResources", "vNetClient.CreateOrUpdate", vNetName),
       Call("createNeededResources", "accountClient.Create", accountName),
       Call("createNeededResources", "subnetClient.CreateOrUpdate", subnetName),
       Call("createNeededResources", "subnetClient.Get", subnetName) >>

createNeededResources ==
    << Call("createNeededResources", "groupClient.CreateOrUpdate", groupName),
       Call("createNeededResources", "accountClient.Create", accountName),
       Call("createNeededResources", "vNetClient.CreateOrUpdate", vNetName),
       Call("createNeededResources", "subnetClient.CreateOrUpdate", subnetName),
       Call("createNeededResources", "subnetClient.Get", subnetName) >>

createPIPandNIC(machine) ==
    << Call("createPIPandNIC", "addressClient.CreateOrUpdate", IPname(machine)),
       Call("createPIPandNIC", "addressClient.Get", IPname(machine)),
       Call("createPIPandNIC", "interfacesClient.CreateOrUpdate", nicName(machine)),
       Call("createPIPandNIC", "interfacesClient.Get", nicName(machine)) >>

createVM(vmName) ==
    createPIPandNIC(vmName)
        \o << Call("createVM", "vmClient.CreateOrUpdate", vmName) >>

getVM(vmName) == << Call("getVM", "vmClient.Get", vmName) >>

updateVM(vmName) == << Call("updateVM", "vmClient.CreateOrUpdate", vmName) >>

attachDataDisk(vmName) ==
    << Call("attachDataDisk", "vmClient.CreateOrUpdate", vmName) >>

detachDataDisks(vmName) ==
    << Call("detachDataDisks", "vmClient.CreateOrUpdate", vmName) >>

updateOSdiskSize(vmName) ==
    << Call("updateOSdiskSize", "vmClient.Deallocate", vmName),
       Call("updateOSdiskSize", "vmClient.CreateOrUpdate", vmName) >>

startVM(vmName) == << Call("startVM", "vmClient.Start", vmName) >>

restartVM(vmName) == << Call("restartVM", "vmClient.Restart", vmName) >>

stopVM(vmName) == << Call("stopVM", "vmClient.PowerOff", vmName) >>

vmOperations_swapped(vmName) ==
    getVM(vmName) \o updateVM(vmName) \o attachDataDisk(vmName)
        \o detachDataDisks(vmName) \o updateOSdiskSize(vmName)
        \o restartVM(vmName) \o startVM(vmName) \o stopVM(vmName)

vmOperations(vmName) ==
    getVM(vmName) \o updateVM(vmName) \o attachDataDisk(vmName)
        \o detachDataDisks(vmName) \o updateOSdiskSize(vmName)
        \o startVM(vmName) \o restartVM(vmName) \o stopVM(vmName)

listVMs == << Call("listVMs", "vmClient.ListAll", "") >>

deleteVM(vmName) == << Call("deleteVM", "vmClient.Delete", vmName) >>

\* wg.Add(2); go f(linuxVMname, &wg); go f(windowsVMname, &wg); wg.Wait()
FanOut(fn) ==
    << Stmt("wg.Add", "main", "", "", 2),
       Stmt("go", fn, "", linuxVMname, 0),
       Stmt("go", fn, "", windowsVMname, 0),
       Stmt("wg.Wait", "main", "", "", 0) >>

main_deleteBeforeKeypress ==
    createNeededResources
        \o << Stmt("defer", "main", "groupClient.Delete", groupName, 0) >>
        \o FanOut("createVM")
        \o FanOut("vmOperations")
        \o listVMs
        \o FanOut("deleteVM")
        \o << Stmt("Scanln", "main", "", "", 0) >>
        \o << Call("main", "groupClient.Delete", groupName) >>

main ==
    createNeededResources
        \o << Stmt("defer", "main", "groupClient.Delete", groupName, 0) >>
        \o FanOut("createVM")
        \o FanOut("vmOperations")
        \o listVMs
        \o << Stmt("Scanln", "main", "", "", 0) >>
        \o FanOut("deleteVM")
        \o << Call("main", "groupClient.Delete", groupName) >>

\* ---- goroutines ----------------------------------------------------------

TaskFns == {"createVM", "vmOperations", "deleteVM"}
Tasks == TaskFns \X VMs
MainThread == <<"main", "">>
Threads == {MainThread} \cup Tasks

Body(t) ==
    CASE t[1] = "main" -> main
      [] t[1] = "createVM" -> createVM(t[2])
      [] t[1] = "vmOperations" -> vmOperations(t[2])
      [] t[1] = "deleteVM" -> deleteVM(t[2])

\* ---- values --------------------------------------------------------------
\* A Go pointer is a sequence: << >> is nil, << x >> points to x.

DiskSizes == { << >> } \cup { << n >> : n \in (-1) .. MaxDiskSizeGB }

DefaultDiskSizeGB == 256
DiskSizeIncrement == 10

\* lines 326-329: if *DiskSizeGB <= 0 { *DiskSizeGB = 256 }; *DiskSizeGB += 10
growDiskSizeGB_strict(size) ==
    IF size < 0 THEN DefaultDiskSizeGB + DiskSizeIncrement
    ELSE size + DiskSizeIncrement

\* DiskSizeGB is an int32 counting gigabytes; the sizes of DiskSizes stay far
\* below 2^31 - 10, where the addition would wrap.
growDiskSizeGB(size) ==
    IF size <= 0 THEN DefaultDiskSizeGB + DiskSizeIncrement
    ELSE size + DiskSizeIncrement

\* the compute.VirtualMachine that vmOperations holds, by the fields it writes
VMvalue(tags, disks, size) ==
    [Tags |-> tags, DataDisks |-> disks, DiskSizeGB |-> size]

\* the publisher, offer and sku main passes to createVM
imageOf(vmName) ==
    CASE vmName = linuxVMname -> << "Canonical", "UbuntuServer", "16.04.0-LTS" >>
      [] vmName = windowsVMname ->
            << "MicrosoftWindowsServer", "WindowsServer", "2016-Datacenter" >>

setVMparameters(vmName, publisher, offer, sku, nicID) ==
    [ComputerName |-> vmName, Publisher |-> publisher, Offer |-> offer,
     Sku |-> sku, OsDiskVhd |-> << accountName, vmName >>,
     nicID |-> << nicID >>]

VARIABLES
    at,             \* per goroutine: index of the statement it is at
    st,             \* per goroutine: "idle", "ready", "wait", "fail", "printed", "done"
    log,            \* per goroutine: the remote calls it issued, with their outcome
    vm,             \* per VM: the *compute.VirtualMachine held by vmOperations
    nicParameters,  \* per VM: the ID of the network.Interface held by createVM
    wg,             \* the sync.WaitGroup counter
    dones,          \* per task: how often it called wg.Done
    deferred,       \* the deferred calls of main, last registered first
    input,          \* whether fmt.Scanln(&input) has read the keypress line
    exitStatus      \* << >> while the process runs, << code >> once it ended

vars == << at, st, log, vm, nicParameters, wg, dones, deferred, input, exitStatus >>

Running == exitStatus = << >>

AtEnd(t) == at[t] = Len(Body(t)) + 1

Cur(t) == Body(t)[at[t]]

AtStmt(t, kind) == st[t] = "ready" /\ ~AtEnd(t) /\ Cur(t).kind = kind

Init ==
    /\ at = [t \in Threads |-> 1]
    /\ st = [t \in Threads |-> IF t = MainThread THEN "ready" ELSE "idle"]
    /\ log = [t \in Threads |-> << >>]
    /\ vm = [v \in VMs |-> << >>]
    /\ nicParameters = [v \in VMs |-> << >>]
    /\ wg = 0
    /\ dones = [t \in Tasks |-> 0]
    /\ deferred = << >>
    /\ input = FALSE
    /\ exitStatus = << >>

Entry(s, req, checked) ==
    [fn |-> s.fn, op |-> s.op, name |-> s.name, req |-> req,
     checked |-> checked, result |-> "pending", resp |-> << >>]

SetLast(seq, f, val) == [seq EXCEPT ![Len(seq)] = [@ EXCEPT ![f] = val]]

\* The local assignments a function makes before it issues the call s:
\* the value of *vm at the call.
Prepared(s, cur) ==
    CASE s.fn = "updateVM" -> [cur EXCEPT !.Tags = TRUE]
      [] s.fn = "attachDataDisk" -> [cur EXCEPT !.DataDisks = 1]
      [] s.fn = "detachDataDisks" -> [cur EXCEPT !.DataDisks = 0]
      [] s.fn = "updateOSdiskSize" /\ s.op = "vmClient.Deallocate" ->
            IF cur.DiskSizeGB = << >> THEN [cur EXCEPT !.DiskSizeGB = << 0 >>]
            ELSE cur
      [] s.fn = "updateOSdiskSize" /\ s.op = "vmClient.CreateOrUpdate" ->
            [cur EXCEPT !.DiskSizeGB = << growDiskSizeGB(cur.DiskSizeGB[1]) >>]
      [] OTHER -> cur

\* Issue the request of the call statement the goroutine is at.
RemoteCall(t) ==
    /\ Running
    /\ AtStmt(t, "call")
    /\ LET s == Cur(t) IN
        \/ /\ t[1] = "vmOperations"
           /\ s.fn # "getVM"
           /\ LET new == Prepared(s, vm[t[2]][1]) IN
                /\ vm' = [vm EXCEPT ![t[2]] = << new >>]
                /\ log' = [log EXCEPT ![t] =
                        Append(@, Entry(s,
                            IF s.op = "vmClient.CreateOrUpdate" THEN << new >>
                            ELSE << >>, TRUE))]
        \/ /\ t[1] = "createVM"
           /\ s.fn = "createVM"
           /\ log' = [log EXCEPT ![t] =
                    Append(@, Entry(s,
                        << setVMparameters(t[2], imageOf(t[2])[1], imageOf(t[2])[2],
                                imageOf(t[2])[3], nicParameters[t[2]][1]) >>, TRUE))]
           /\ UNCHANGED vm
        \/ /\ ~(t[1] = "vmOperations" /\ s.fn # "getVM")
           /\ ~(t[1] = "createVM" /\ s.fn = "createVM")
           /\ log' = [log EXCEPT ![t] = Append(@, Entry(s, << >>, TRUE))]
           /\ UNCHANGED vm
    /\ st' = [st EXCEPT ![t] = "wait"]
    /\ UNCHANGED << input, at, nicParameters, wg, dones, deferred, exitStatus >>

\* The response arrives with err == nil: onErrorFail returns and the
\* goroutine goes on to its next statement.
RemoteReturnOK(t) ==
    /\ Running
    /\ st[t] = "wait"
    /\ ~AtEnd(t)
    /\ LET s == Cur(t) IN
        \/ /\ s.op = "vmClient.Get"
           /\ \E size \in DiskSizes :
                /\ vm' = [vm EXCEPT ![s.name] = << VMvalue(FALSE, 0, size) >>]
                /\ log' = [log EXCEPT ![t] =
                        SetLast(SetLast(@, "result", "ok"), "resp", << size >>)]
           /\ UNCHANGED nicParameters
        \/ /\ s.op = "interfacesClient.Get"
           /\ nicParameters' = [nicParameters EXCEPT ![t[2]] = << s.name >>]
           /\ log' = [log EXCEPT ![t] = SetLast(@, "result", "ok")]
           /\ UNCHANGED vm
        \/ /\ s.op \notin {"vmClient.Get", "interfacesClient.Get"}
           /\ log' = [log EXCEPT ![t] = SetLast(@, "result", "ok")]
           /\ UNCHANGED << vm, nicParameters >>
    /\ at' = [at EXCEPT ![t] = @ + 1]
    /\ st' = [st EXCEPT ![t] = "ready"]
    /\ UNCHANGED << input, wg, dones, deferred, exitStatus >>

\* The response arrives with err != nil: the goroutine enters the failure
\* branch of onErrorFail.
RemoteReturnErr(t) ==
    /\ Running
    /\ st[t] = "wait"
    /\ ~AtEnd(t)
    /\ log' = [log EXCEPT ![t] = SetLast(@, "result", "err")]
    /\ st' = [st EXCEPT ![t] = "fail"]
    /\ UNCHANGED << input, at, vm, nicParameters, wg, dones, deferred, exitStatus >>

onErrorFail_continue(t) ==
    /\ Running
    /\ \/ /\ st[t] = "fail"
          /\ st' = [st EXCEPT ![t] = "printed"]
          /\ UNCHANGED at
       \/ /\ st[t] = "printed"
          /\ at' = [at EXCEPT ![t] = @ + 1]
          /\ st' = [st EXCEPT ![t] = "ready"]
    /\ UNCHANGED << input, log, vm, nicParameters, wg, dones, deferred, exitStatus >>

onErrorFail_runsDeferred(t) ==
    /\ Running
    /\ \/ /\ st[t] = "fail"
          /\ st' = [st EXCEPT ![t] = "printed"]
          /\ UNCHANGED << log, deferred, exitStatus >>
       \/ /\ st[t] = "printed"
          /\ deferred # << >>
          /\ log' = [log EXCEPT ![MainThread] =
                        Append(@, Entry(Head(deferred), << >>, FALSE))]
          /\ deferred' = Tail(deferred)
          /\ UNCHANGED << st, exitStatus >>
       \/ /\ st[t] = "printed"
          /\ deferred = << >>
          /\ exitStatus' = << 1 >>
          /\ UNCHANGED << st, log, deferred >>
    /\ UNCHANGED << input, at, vm, nicParameters, wg, dones >>

\* if err != nil { fmt.Printf(...); os.Exit(1) }
onErrorFail(t) ==
    /\ Running
    /\ \/ /\ st[t] = "fail"
          /\ st' = [st EXCEPT ![t] = "printed"]
          /\ UNCHANGED exitStatus
       \/ /\ st[t] = "printed"
          /\ exitStatus' = << 1 >>
          /\ UNCHANGED st
    /\ UNCHANGED << input, at, log, vm, nicParameters, wg, dones, deferred >>

\* defer groupClient.Delete(cntx, groupName)
deferStmt ==
    /\ Running
    /\ AtStmt(MainThread, "defer")
    /\ deferred' = << Cur(MainThread) >> \o deferred
    /\ at' = [at EXCEPT ![MainThread] = @ + 1]
    /\ UNCHANGED << input, st, log, vm, nicParameters, wg, dones, exitStatus >>

wgAdd_one ==
    /\ Running
    /\ AtStmt(MainThread, "wg.Add")
    /\ wg' = wg + 1
    /\ at' = [at EXCEPT ![MainThread] = @ + 1]
    /\ UNCHANGED << input, st, log, vm, nicParameters, dones, deferred, exitStatus >>

\* wg.Add(2)
wgAdd ==
    /\ Running
    /\ AtStmt(MainThread, "wg.Add")
    /\ wg' = wg + Cur(MainThread).n
    /\ at' = [at EXCEPT ![MainThread] = @ + 1]
    /\ UNCHANGED << input, st, log, vm, nicParameters, dones, deferred, exitStatus >>

\* go createVM(...), go vmOperations(...), go deleteVM(...)
goStmt ==
    /\ Running
    /\ AtStmt(MainThread, "go")
    /\ LET task == << Cur(MainThread).fn, Cur(MainThread).name >> IN
        /\ st[task] = "idle"
        /\ st' = [st EXCEPT ![task] = "ready"]
    /\ at' = [at EXCEPT ![MainThread] = @ + 1]
    /\ UNCHANGED << input, log, vm, nicParameters, wg, dones, deferred, exitStatus >>

wgWait_noBlock ==
    /\ Running
    /\ AtStmt(MainThread, "wg.Wait")
    /\ at' = [at EXCEPT ![MainThread] = @ + 1]
    /\ UNCHANGED << input, st, log, vm, nicParameters, wg, dones, deferred, exitStatus >>

\* wg.Wait(): blocks until the counter is zero
wgWait ==
    /\ Running
    /\ AtStmt(MainThread, "wg.Wait")
    /\ wg = 0
    /\ at' = [at EXCEPT ![MainThread] = @ + 1]
    /\ UNCHANGED << input, st, log, vm, nicParameters, wg, dones, deferred, exitStatus >>

\* fmt.Scanln(&input): returns once a line (or the end of input) is read
Scanln ==
    /\ Running
    /\ AtStmt(MainThread, "Scanln")
    /\ at' = [at EXCEPT ![MainThread] = @ + 1]
    /\ input' = TRUE
    /\ UNCHANGED << st, log, vm, nicParameters, wg, dones, deferred, exitStatus >>

\* defer wg.Done(): runs when the body of the task returns
wgDone(t) ==
    /\ Running
    /\ t \in Tasks
    /\ st[t] = "ready"
    /\ AtEnd(t)
    /\ wg' = wg - 1
    /\ dones' = [dones EXCEPT ![t] = @ + 1]
    /\ st' = [st EXCEPT ![t] = "done"]
    /\ UNCHANGED << input, at, log, vm, nicParameters, deferred, exitStatus >>

\* main returns: its deferred calls run, their results are dropped, and the
\* process ends with status 0
mainReturn ==
    /\ Running
    /\ AtEnd(MainThread)
    /\ \/ /\ st[MainThread] = "ready"
          /\ deferred # << >>
          /\ log' = [log EXCEPT ![MainThread] =
                        Append(@, Entry(Head(deferred), << >>, FALSE))]
          /\ st' = [st EXCEPT ![MainThread] = "wait"]
          /\ UNCHANGED << deferred, exitStatus >>
       \/ /\ st[MainThread] = "wait"
          /\ \E r \in {"ok", "err"} :
                log' = [log EXCEPT ![MainThread] = SetLast(@, "result", r)]
          /\ deferred' = Tail(deferred)
          /\ st' = [st EXCEPT ![MainThread] = "ready"]
          /\ UNCHANGED exitStatus
       \/ /\ st[MainThread] = "ready"
          /\ deferred = << >>
          /\ exitStatus' = << 0 >>
          /\ st' = [st EXCEPT ![MainThread] = "done"]
          /\ UNCHANGED << log, deferred >>
    /\ UNCHANGED << input, at, vm, nicParameters, wg, dones >>

Next ==
    \/ \E t \in Threads : RemoteCall(t)
    \/ \E t \in Threads : RemoteReturnOK(t)
    \/ \E t \in Threads : RemoteReturnErr(t)
    \/ \E t \in Threads : onErrorFail(t)
    \/ deferStmt
    \/ wgAdd
    \/ goStmt
    \/ wgWait
    \/ Scanln
    \/ \E t \in Tasks : wgDone(t)
    \/ mainReturn

Spec == Init /\ [][Next]_vars

\* The Go scheduler runs every runnable goroutine: a goroutine inside
\* onErrorFail reaches os.Exit.
FairSpec == Spec /\ \A t \in Threads : WF_vars(onErrorFail(t))

\* ---- vocabulary of the properties ----------------------------------------

Started(t) == st[t] # "idle"

\* the task's function has returned (its deferred wg.Done has run)
Finished(t) == st[t] = "done"

Entries(t) == { log[t][i] : i \in 1 .. Len(log[t]) }

AllEntries == UNION { Entries(t) : t \in Threads }

Issued(t, op) == \E e \in Entries(t) : e.op = op

Requests(t) == [i \in 1 .. Len(log[t]) |-> << log[t][i].op, log[t][i].name >>]

IsPrefix(s, full) ==
    /\ Len(s) <= Len(full)
    /\ \A i \in 1 .. Len(s) : s[i] = full[i]

\* every call but the latest of the goroutine has returned without error
AllButLastOK(t) == \A i \in 1 .. (Len(log[t]) - 1) : log[t][i].result = "ok"

DeleteOps == {"vmClient.Delete", "groupClient.Delete"}

BothFinished(fn) == \A v \in VMs : Finished(<< fn, v >>)

AnyStarted(fn) == \E v \in VMs : Started(<< fn, v >>) \/ log[<< fn, v >>] # << >>

\* ---- C1 ------------------------------------------------------------------
\* C1: phase barrier. No vmOperations task starts (or issues a call) before
\* both createVM tasks have returned; no deleteVM task starts and
\* vmClient.ListAll is not issued before both vmOperations tasks have
\* returned; the explicit groupClient.Delete is issued only after both
\* deleteVM tasks have returned.
C1_PhaseBarrier ==
    /\ AnyStarted("vmOperations") => BothFinished("createVM")
    /\ Issued(MainThread, "vmClient.ListAll") => BothFinished("vmOperations")
    /\ AnyStarted("deleteVM") => BothFinished("vmOperations")
    /\ Issued(MainThread, "groupClient.Delete") => BothFinished("deleteVM")

\* all three barriers have been passed: the final group delete is issued
C1_Witness ==
    /\ Issued(MainThread, "groupClient.Delete")
    /\ BothFinished("createVM") /\ BothFinished("vmOperations")
    /\ BothFinished("deleteVM")

\* ---- C2 ------------------------------------------------------------------
ProvisioningOrder ==
    << << "groupClient.CreateOrUpdate", "sample-group1" >>,
       << "accountClient.Create", "golangrocksonazurese" >>,
       << "vNetClient.CreateOrUpdate", "vNet" >>,
       << "subnetClient.CreateOrUpdate", "subnet" >>,
       << "subnetClient.Get", "subnet" >> >>

\* C2: provisioning order. The first five calls of main are, in this order,
\* resource group CreateOrUpdate, storage account Create, virtual network
\* CreateOrUpdate, subnet CreateOrUpdate, subnet Get; each is issued only
\* after the one before returned without error; no createVM task is started
\* (and none has issued a call) before the subnet Get returned without error.
C2_ProvisioningOrder ==
    /\ \A i \in 1 .. Len(log[MainThread]) :
            i <= 5 => Requests(MainThread)[i] = ProvisioningOrder[i]
    /\ AllButLastOK(MainThread)
    /\ AnyStarted("createVM") =>
            /\ Len(log[MainThread]) >= 5
            /\ log[MainThread][5].result = "ok"

\* a createVM task has issued its first call after the provisioning
C2_Witness ==
    /\ Len(log[MainThread]) = 5
    /\ \E v \in VMs : Len(log[<< "createVM", v >>]) >= 1

\* ---- C3 ------------------------------------------------------------------
OperationOrder ==
    << << "getVM", "vmClient.Get" >>,
       << "updateVM", "vmClient.CreateOrUpdate" >>,
       << "attachDataDisk", "vmClient.CreateOrUpdate" >>,
       << "detachDataDisks", "vmClient.CreateOrUpdate" >>,
       << "updateOSdiskSize", "vmClient.Deallocate" >>,
       << "updateOSdiskSize", "vmClient.CreateOrUpdate" >>,
       << "startVM", "vmClient.Start" >>,
       << "restartVM", "vmClient.Restart" >>,
       << "stopVM", "vmClient.PowerOff" >> >>

\* C3: per-VM operation order. The calls a vmOperations task has issued are
\* a prefix of Get, CreateOrUpdate (tag), CreateOrUpdate (attach),
\* CreateOrUpdate (detach), Deallocate, CreateOrUpdate (resize), Start,
\* Restart, PowerOff, all on its own VM, each issued only after the one
\* before returned without error; the payloads carry the tag, the attached
\* and the detached disk; a task that has returned issued all nine, the last
\* being PowerOff.
C3_OperationOrder ==
    \A v \in VMs :
        LET t == << "vmOperations", v >> IN
        /\ IsPrefix([i \in 1 .. Len(log[t]) |-> << log[t][i].fn, log[t][i].op >>],
                    OperationOrder)
        /\ \A e \in Entries(t) : e.name = v
        /\ AllButLastOK(t)
        /\ Len(log[t]) >= 2 => log[t][2].req[1].Tags
        /\ Len(log[t]) >= 3 => log[t][3].req[1].DataDisks = 1
        /\ Len(log[t]) >= 4 => log[t][4].req[1].DataDisks = 0
        /\ Finished(t) =>
                /\ Len(log[t]) = 9
                /\ log[t][9].op = "vmClient.PowerOff"
                /\ log[t][9].result = "ok"

\* the two sequences interleave: one VM is through, the other at its attach
C3_Witness ==
    /\ Finished(<< "vmOperations", "windowsVM" >>)
    /\ Len(log[<< "vmOperations", "linuxVM" >>]) = 3
    /\ Len(log[<< "vmOperations", "windowsVM" >>]) = 9

\* ---- C4 ------------------------------------------------------------------
AnyDeleteIssued == \E e \in AllEntries : e.op \in DeleteOps

C4_Gate ==
    /\ AnyDeleteIssued =>
            /\ \E e \in Entries(MainThread) :
                    e.op = "vmClient.ListAll" /\ e.result = "ok"
            /\ input
            /\ \A e \in AllEntries : e.op \notin DeleteOps => e.result = "ok"
    /\ Issued(MainThread, "groupClient.Delete") =>
            \A v \in VMs : \E e \in Entries(<< "deleteVM", v >>) :
                e.op = "vmClient.Delete" /\ e.name = v /\ e.result = "ok"

C4_OnlyDeletesAfterDelete ==
    AnyDeleteIssued =>
        \A t \in Threads :
            Len(log'[t]) > Len(log[t]) =>
                log'[t][Len(log'[t])].op \in DeleteOps

\* C4: teardown gating. A VM Delete or a resource-group Delete is issued
\* only after vmClient.ListAll returned and fmt.Scanln has read the keypress,
\* when every create, update and power-state call has returned; the group
\* Delete follows the return of both VM deletes; once a delete has been
\* issued, every later request is a delete.
C4_TeardownGating == [] C4_Gate /\ [][C4_OnlyDeletesAfterDelete]_vars

\* after the keypress both VM deletes are in flight at the same time
C4_Witness ==
    /\ input
    /\ \A v \in VMs :
            /\ Len(log[<< "deleteVM", v >>]) = 1
            /\ log[<< "deleteVM", v >>][1].result = "pending"

\* ---- C5 ------------------------------------------------------------------
\* a call checked by onErrorFail has returned an error
Failed(t) == \E e \in Entries(t) : e.checked /\ e.result = "err"

AnyFailed == \E t \in Threads : Failed(t)

NoNewRequest == \A t \in Threads : Len(log'[t]) = Len(log[t])

C5_FailingGoroutineStops ==
    \A t \in Threads :
        /\ AllButLastOK(t)
        /\ Failed(t) =>
                /\ st[t] \in {"fail", "printed"}
                /\ log[t][Len(log[t])].result = "err"

C5_ExitStatus ==
    /\ AnyFailed => exitStatus # << 0 >>
    /\ exitStatus = << 1 >> =>
            \E t \in Threads : Failed(t) /\ st[t] = "printed"

CreationOrder(v) ==
    CASE v = "linuxVM" ->
            << << "addressClient.CreateOrUpdate", "pip-linuxVM" >>,
               << "addressClient.Get", "pip-linuxVM" >>,
               << "interfacesClient.CreateOrUpdate", "nic-linuxVM" >>,
               << "interfacesClient.Get", "nic-linuxVM" >>,
               << "vmClient.CreateOrUpdate", "linuxVM" >> >>
      [] v = "windowsVM" ->
            << << "addressClient.CreateOrUpdate", "pip-windowsVM" >>,
               << "addressClient.Get", "pip-windowsVM" >>,
               << "interfacesClient.CreateOrUpdate", "nic-windowsVM" >>,
               << "interfacesClient.Get", "nic-windowsVM" >>,
               << "vmClient.CreateOrUpdate", "windowsVM" >> >>

\* C6: VM creation order. The calls a createVM task has issued are a prefix
\* of public IP CreateOrUpdate, public IP Get, NIC CreateOrUpdate, NIC Get,
\* VM CreateOrUpdate, each issued only after the one before returned without
\* error; the VM request names the NIC nic-<its own VM name>.
C6_CreationOrder ==
    \A v \in VMs :
        LET t == << "createVM", v >> IN
        /\ IsPrefix(Requests(t), CreationOrder(v))
        /\ AllButLastOK(t)
        /\ Len(log[t]) = 5 =>
                /\ log[t][4].result = "ok"
                /\ log[t][5].req[1].nicID = << CreationOrder(v)[4][2] >>
                /\ \A w \in VMs \ {v} :
                        log[t][5].req[1].nicID # << CreationOrder(w)[4][2] >>

\* both VM creation requests have been issued
C6_Witness ==
    \A v \in VMs :
        /\ Len(log[<< "createVM", v >>]) = 5
        /\ log[<< "createVM", v >>][5].op = "vmClient.CreateOrUpdate"

\* ---- C7 ------------------------------------------------------------------
\* C7: OS disk resize. The resizing CreateOrUpdate follows a Deallocate of
\* the same VM that returned without error, and submits old+10 when the size
\* in the response of Get is present and greater than 0, and 266 when it is
\* nil or not greater than 0.
C7_ResizeOSdisk ==
    \A v \in VMs :
        LET t == << "vmOperations", v >> IN
        \A i \in 1 .. Len(log[t]) :
            (log[t][i].fn = "updateOSdiskSize"
                    /\ log[t][i].op = "vmClient.CreateOrUpdate") =>
                /\ i > 1
                /\ log[t][i - 1].op = "vmClient.Deallocate"
                /\ log[t][i - 1].name = v
                /\ log[t][i - 1].result = "ok"
                /\ log[t][i].name = v
                /\ LET old == log[t][1].resp[1]
                       new == log[t][i].req[1].DiskSizeGB
                   IN  IF old # << >> /\ old[1] > 0
                       THEN new = << old[1] + 10 >>
                       ELSE new = << 266 >>

\* one VM is resized from an absent size, the other from a positive size
C7_Witness ==
    /\ Len(log[<< "vmOperations", "linuxVM" >>]) >= 6
    /\ log[<< "vmOperations", "linuxVM" >>][1].resp[1] = << >>
    /\ log[<< "vmOperations", "linuxVM" >>][6].req[1].DiskSizeGB = << 266 >>
    /\ Len(log[<< "vmOperations", "windowsVM" >>]) >= 6
    /\ log[<< "vmOperations", "windowsVM" >>][1].resp[1] = << 2 >>
    /\ log[<< "vmOperations", "windowsVM" >>][6].req[1].DiskSizeGB = << 12 >>

\* ---- C8 ------------------------------------------------------------------
GroupDeletes == { i \in 1 .. Len(log[MainThread]) :
                    log[MainThread][i].op = "groupClient.Delete" }

\* a checked call other than the explicit groupClient.Delete of main failed
FailedBeforeGroupDelete ==
    \E e \in AllEntries :
        e.checked /\ e.result = "err" /\ e.op # "groupClient.Delete"

\* C8: cleanup is skipped on failure. When a checked call other than the
\* explicit groupClient.Delete has failed, no resource-group Delete request
\* exists, however the run goes on; only main issues group deletes; the
\* deferred one is issued only directly after the explicit one returned
\* without error; a run that ends with status 0 requested the deletion twice,
\* a run that ends with the explicit delete failing requested it once.
C8_CleanupSkipped ==
    /\ FailedBeforeGroupDelete => ~ \E e \in AllEntries : e.op = "groupClient.Delete"
    /\ \A t \in Tasks : ~Issued(t, "groupClient.Delete")
    /\ \A i \in 1 .. Len(log[MainThread]) :
            ~log[MainThread][i].checked =>
                /\ i > 1
                /\ log[MainThread][i].op = "groupClient.Delete"
                /\ log[MainThread][i - 1].op = "groupClient.Delete"
                /\ log[MainThread][i - 1].checked
                /\ log[MainThread][i - 1].result = "ok"
    /\ exitStatus = << 0 >> => Cardinality(GroupDeletes) = 2 /\ ~AnyFailed
    /\ (exitStatus = << 1 >> /\ ~FailedBeforeGroupDelete) =>
            Cardinality(GroupDeletes) = 1

\* the process exited on a failed call with the deferred delete registered
\* and never run
C8_Witness ==
    /\ exitStatus = << 1 >>
    /\ FailedBeforeGroupDelete
    /\ deferred # << >>

\* ---- C9 ------------------------------------------------------------------
TasksAtRest == \A t \in Tasks : st[t] \in {"idle", "done"}

C9_Counter ==
    /\ wg \in {0, 1, 2}
    /\ \A t \in Tasks : dones[t] <= 1

C9_AddAndWait ==
    /\ wg' > wg => wg = 0 /\ TasksAtRest
    /\ (AtStmt(MainThread, "wg.Wait") /\ at'[MainThread] # at[MainThread]) => wg = 0

\* C9: WaitGroup reuse. The counter is always 0, 1 or 2; every wg.Add runs
\* with the counter at 0 and no task of an earlier fan-out unfinished; every
\* task calls Done at most once; wg.Wait returns only with the counter at 0.
C9_WaitGroupReuse == [] C9_Counter /\ [][C9_AddAndWait]_vars

\* the third use of the WaitGroup: one deleteVM task has called Done
C9_Witness ==
    /\ wg = 1
    /\ dones[<< "deleteVM", "linuxVM" >>] = 1
    /\ st[<< "deleteVM", "windowsVM" >>] = "wait"
====
